---- MODULE Spec2Model ----
(***************************************************************************)
(* A model of thinc/ml/learner.pyx: the sparse averaged linear model       *)
(* (LinearModel) and its score cache (ScoresCache).                        *)
(*                                                                         *)
(* Pointers are modelled explicitly.  The arena `mem` maps the address of  *)
(* every array of row pointers to its rows; a row is NULL or a line of     *)
(* LINE_SIZE weights.  The inference map `weights` holds such addresses,   *)
(* the training map `train_weights` holds TrainFeat structs (the address   *)
(* of the weights array plus the metadata rows), so that two map entries   *)
(* share storage exactly when they hold the same address.                  *)
(*                                                                         *)
(* lm       the LinearModel instance                                       *)
(* cache    the ScoresCache instance                                       *)
(* is_hit   the caller's flag that ScoresCache.lookup writes through       *)
(* ret      the last call: its name, how it ended, what it returned        *)
(* env      the caller: which inputs it draws and how many calls it makes  *)
(* calls    history: the calls of each operation made so far               *)
(* touched  history: the feature keys some update call was given a         *)
(*          nonzero delta for (in an entry it got to)                      *)
(* naive    history: for every cell, the sum over the update calls so far  *)
(*          of the live weight the cell had at the end of the call         *)
(* prev_buf history: the buffer the last lookup of each key returned       *)
(*          since the last flush                                           *)
(***************************************************************************)
EXTENDS Integers, Sequences, FiniteSets, TLC

VARIABLES lm, cache, is_hit, ret, env, calls, touched, naive, prev_buf

vars == <<lm, cache, is_hit, ret, env, calls, touched, naive, prev_buf>>

(***************************************************************************)
(* Program constants and bounds                                            *)
(***************************************************************************)
LINE_SIZE == 7

\* largest nr_class a model is constructed with
MaxNrClass == 10
\* feature ids range over 0..MaxFeatId (0 is the "absent" sentinel)
MaxFeatId == 1
\* deltas of an update range over 0..MaxDelta
MaxDelta == 2
\* entries (class, feature, delta) in one update call
MaxEntries == 2
\* update calls on a model with several features and rows
MaxTime == 2
\* update calls on a model with a single cell
MaxTimeDeep == 3
\* end_training calls on a model with a single cell
MaxEndDeep == 2
\* update calls on a model that is dumped and loaded
MaxTimeFile == 3
\* lines in a loaded file
MaxLines == 1
\* load calls on one model
MaxLoads == 1
\* frequency thresholds of dump and load range over 0..MaxThresh
MaxThresh == 2
\* capacity of the score cache
MaxCacheSize == 2
\* lookups between two flushes of the score cache
MaxLookups == 4
\* cache keys are byte strings of length 1..MaxKeyLen over 0..MaxByte
MaxKeyLen == 2
MaxByte == 1

NULL == <<>>

(***************************************************************************)
(* Row arithmetic                                                          *)
(***************************************************************************)
get_row(clas) == clas \div LINE_SIZE

get_col(clas) == clas % LINE_SIZE

get_nr_rows(n) ==
    LET nr_lines == get_row(n)
    IN  IF nr_lines = 0 \/ nr_lines * LINE_SIZE < n
        THEN nr_lines + 1
        ELSE nr_lines

Rows(n) == 0 .. (get_nr_rows(n) - 1)

Cols == 0 .. (LINE_SIZE - 1)

\* Pool.alloc returns zeroed memory
ZeroLine == [col \in Cols |-> 0]

ZeroMeta == [col \in Cols |-> [count |-> 0, time |-> 0, total |-> 0]]

NullRows(n) == [row \in Rows(n) |-> NULL]

\* the address the arena hands out next
NewAddr(mem) == Cardinality(DOMAIN mem) + 1

(***************************************************************************)
(* TrainFeat helpers                                                       *)
(***************************************************************************)
\* new_train_feat: a pointer array and a metadata array, all rows absent
new_train_feat(mem, nr_class) ==
    LET a == NewAddr(mem)
    IN  [feat |-> [weights |-> a, meta |-> NullRows(nr_class)],
         mem  |-> mem @@ (a :> NullRows(nr_class))]

RECURSIVE SumCounts(_, _)
SumCounts(metarow, col) ==
    IF col >= LINE_SIZE THEN 0
    ELSE metarow[col].count + SumCounts(metarow, col + 1)

RECURSIVE get_total_count_from(_, _, _)
get_total_count_from(feat, n, row) ==
    IF row >= get_nr_rows(n) THEN 0
    ELSE (IF feat.meta[row] = NULL THEN 0 ELSE SumCounts(feat.meta[row], 0))
         + get_total_count_from(feat, n, row + 1)

get_total_count(feat, n) == get_total_count_from(feat, n, 0)

\* the three per-touch steps; m is the model, key the feature's map key
update_weight(m, key, clas, inc) ==
    LET feat == m.train_weights[key]
    IN  [m EXCEPT !.mem[feat.weights][get_row(clas)][get_col(clas)] = @ + inc]

\* the timestep of the last touch left out of the interval
update_accumulator_skips_step(m, key, clas, time) ==
    LET feat == m.train_weights[key]
        row == get_row(clas)
        col == get_col(clas)
        weight == m.mem[feat.weights][row][col]
        unchanged == time - feat.meta[row][col].time - 1
    IN  [m EXCEPT !.train_weights[key].meta[row][col] =
            [@ EXCEPT !.total = @ + unchanged * weight, !.time = time]]

update_accumulator(m, key, clas, time) ==
    LET feat == m.train_weights[key]
        row == get_row(clas)
        col == get_col(clas)
        weight == m.mem[feat.weights][row][col]
        unchanged == time - feat.meta[row][col].time
    IN  [m EXCEPT !.train_weights[key].meta[row][col] =
            [@ EXCEPT !.total = @ + unchanged * weight, !.time = time]]

update_count(m, key, clas, inc) ==
    [m EXCEPT !.train_weights[key].meta[get_row(clas)][get_col(clas)].count = @ + inc]

(***************************************************************************)
(* Scoring                                                                 *)
(***************************************************************************)
\* every row added at full width
line_cols_unrolled(start, nr_class) == Cols

\* the columns of a gathered row that set_scores adds
line_cols(start, nr_class) ==
    IF (start + LINE_SIZE) < nr_class
    THEN Cols
    ELSE 0 .. (nr_class - start - 1)

RECURSIVE set_scores_from(_, _, _, _)
set_scores_from(scores, weight_lines, row, nr_class) ==
    IF row > Len(weight_lines) THEN scores
    ELSE LET wl == weight_lines[row]
             added == [c \in DOMAIN scores |->
                         IF c >= wl.start /\ (c - wl.start) \in line_cols(wl.start, nr_class)
                         THEN scores[c] + wl.line[c - wl.start]
                         ELSE scores[c]]
         IN  set_scores_from(added, weight_lines, row + 1, nr_class)

\* the output buffer not zeroed first
set_scores_no_memset(scores, weight_lines, nr_class) ==
    set_scores_from(scores, weight_lines, 1, nr_class)

\* memset, then one addition per gathered row and column
set_scores(scores, weight_lines, nr_class) ==
    set_scores_from([c \in DOMAIN scores |-> 0], weight_lines, 1, nr_class)

\* the indices of the output buffer set_scores writes
set_scores_written(weight_lines, nr_class) ==
    UNION { { weight_lines[i].start + col :
                col \in line_cols(weight_lines[i].start, nr_class) } :
            i \in 1 .. Len(weight_lines) }

\* a gathered row given the offset of the row after it
RECURSIVE gather_rows_start_after(_, _, _)
gather_rows_start_after(feature, row, nr_rows) ==
    IF row >= nr_rows THEN <<>>
    ELSE (IF feature[row] # NULL
          THEN <<[start |-> (row + 1) * LINE_SIZE, line |-> feature[row]]>>
          ELSE <<>>)
         \o gather_rows_start_after(feature, row + 1, nr_rows)

RECURSIVE gather_rows(_, _, _)
gather_rows(feature, row, nr_rows) ==
    IF row >= nr_rows THEN <<>>
    ELSE (IF feature[row] # NULL
          THEN <<[start |-> row * LINE_SIZE, line |-> feature[row]]>>
          ELSE <<>>)
         \o gather_rows(feature, row + 1, nr_rows)

\* every position looked up in the map of template 0
RECURSIVE gather_from_one_map(_, _, _)
gather_from_one_map(m, feat_ids, template_id) ==
    IF template_id >= Len(feat_ids) THEN <<>>
    ELSE LET feat_id == feat_ids[template_id + 1]
             key == <<0, feat_id>>
         IN  (IF feat_id = 0 THEN <<>>
              ELSE IF key \notin DOMAIN m.weights THEN <<>>
              ELSE gather_rows(m.mem[m.weights[key]], 0, get_nr_rows(m.nr_class)))
             \o gather_from_one_map(m, feat_ids, template_id + 1)

RECURSIVE gather_from(_, _, _)
gather_from(m, feat_ids, template_id) ==
    IF template_id >= Len(feat_ids) THEN <<>>
    ELSE LET feat_id == feat_ids[template_id + 1]
             key == <<template_id, feat_id>>
         IN  (IF feat_id = 0 THEN <<>>
              ELSE IF key \notin DOMAIN m.weights THEN <<>>
              ELSE gather_rows(m.mem[m.weights[key]], 0, get_nr_rows(m.nr_class)))
             \o gather_from(m, feat_ids, template_id + 1)

gather_weights(m, feat_ids) == gather_from(m, feat_ids, 0)

(***************************************************************************)
(* The cells of a map                                                      *)
(*                                                                         *)
(* end_training and dump walk the cells of the maps by index, so the model *)
(* keeps, beside the contents of each map, where its keys lie.  A map is a *)
(* table of cells whose length is a power of two; a cell with key 0 is     *)
(* empty; a key is put in the first cell, from index key mod length on and *)
(* wrapping round, that is empty or holds the key; a table about to be     *)
(* three fifths full is doubled and its keys are put again in cell order.  *)
(***************************************************************************)
INITIAL_SIZE == 8

map_init(length) == [cells |-> [i \in 0 .. (length - 1) |-> 0], filled |-> 0]

MapLength(map) == Cardinality(DOMAIN map.cells)

RECURSIVE find_cell(_, _, _)
find_cell(cells, key, i) ==
    IF cells[i] = 0 \/ cells[i] = key THEN i
    ELSE find_cell(cells, key, (i + 1) % Cardinality(DOMAIN cells))

SlotOf(map, key) == find_cell(map.cells, key, key % MapLength(map))

\* the key written into its cell, the table not yet grown
map_put(map, key) ==
    LET i == SlotOf(map, key)
    IN  [cells  |-> [map.cells EXCEPT ![i] = key],
         filled |-> IF map.cells[i] = 0 THEN map.filled + 1 ELSE map.filled]

RECURSIVE resize_from(_, _, _)
resize_from(new, old, i) ==
    IF i >= MapLength(old) THEN new
    ELSE resize_from(IF old.cells[i] = 0 THEN new ELSE map_put(new, old.cells[i]),
                     old, i + 1)

map_set(map, key) ==
    LET put == map_put(map, key)
    IN  IF (put.filled + 1) * 5 >= MapLength(put) * 3
        THEN resize_from(map_init(2 * MapLength(put)), put, 0)
        ELSE put

\* the occupied cells of the maps of all templates, in the order the loops
\* over range(nr_templates) and range(map_.length) visit them
RECURSIVE CellsFrom(_, _, _, _)
CellsFrom(maps, nr_templates, template_id, i) ==
    IF template_id >= nr_templates THEN <<>>
    ELSE IF i >= MapLength(maps[template_id])
    THEN CellsFrom(maps, nr_templates, template_id + 1, 0)
    ELSE (IF maps[template_id].cells[i] = 0 THEN <<>>
          ELSE << [template_id |-> template_id, i |-> i,
                   key |-> maps[template_id].cells[i]] >>)
         \o CellsFrom(maps, nr_templates, template_id, i + 1)

OccupiedCells(maps, nr_templates) == CellsFrom(maps, nr_templates, 0, 0)

(***************************************************************************)
(* LinearModel                                                             *)
(***************************************************************************)
\* LinearModel.__init__
NewModel(nr_class, nr_templates) ==
    [nr_class      |-> nr_class,
     nr_templates  |-> nr_templates,
     total         |-> 0,
     n_corr        |-> 0,
     time          |-> 0,
     weights       |-> <<>>,
     train_weights |-> <<>>,
     w_maps        |-> [t \in 0 .. (nr_templates - 1) |-> map_init(INITIAL_SIZE)],
     t_maps        |-> [t \in 0 .. (nr_templates - 1) |-> map_init(INITIAL_SIZE)],
     mem           |-> <<>>]

\* a key the inference map holds already left with the storage it has
new_feat_keeps_loaded(m, key) ==
    LET r == new_train_feat(m.mem, m.nr_class)
    IN  [m EXCEPT !.mem = r.mem,
                  !.weights = (m.weights @@ (key :> r.feat.weights)),
                  !.w_maps[key[1]] = map_set(@, key[2]),
                  !.train_weights = ((key :> r.feat) @@ m.train_weights),
                  !.t_maps[key[1]] = map_set(@, key[2])]

\* the inference map given a pointer array of its own
new_feat_own_storage(m, key) ==
    LET r == new_train_feat(m.mem, m.nr_class)
        b == NewAddr(r.mem)
    IN  [m EXCEPT !.mem = (b :> NullRows(m.nr_class)) @@ r.mem,
                  !.weights = ((key :> b) @@ m.weights),
                  !.w_maps[key[1]] = map_set(@, key[2]),
                  !.train_weights = ((key :> r.feat) @@ m.train_weights),
                  !.t_maps[key[1]] = map_set(@, key[2])]

new_feat(m, key) ==
    LET r == new_train_feat(m.mem, m.nr_class)
    IN  [m EXCEPT !.mem = r.mem,
                  !.weights = ((key :> r.feat.weights) @@ m.weights),
                  !.w_maps[key[1]] = map_set(@, key[2]),
                  !.train_weights = ((key :> r.feat) @@ m.train_weights),
                  !.t_maps[key[1]] = map_set(@, key[2])]

\* LinearModel.score: scores is the caller's output buffer, of nr_class
\* cells, with whatever the last use left in it
score(m, scores, feat_ids) ==
    set_scores(scores, gather_weights(m, feat_ids), m.nr_class)

\* the delta added before the accumulator is brought up to date
update_entry_weight_first(m, e) ==
    LET key == <<e.template_id, e.feat_id>>
        row == get_row(e.clas)
        m1 == IF key \in DOMAIN m.train_weights THEN m ELSE new_feat(m, key)
        a  == m1.train_weights[key].weights
        m2 == IF m1.mem[a][row] = NULL
              THEN [m1 EXCEPT !.mem[a][row] = ZeroLine,
                              !.train_weights[key].meta[row] = ZeroMeta]
              ELSE m1
    IN  IF m2.train_weights[key].meta[row] = NULL
        THEN [m |-> m2, err |-> "segfault"]
        ELSE [m |-> update_count(
                      update_accumulator(
                        update_weight(m2, key, e.clas, e.upd),
                        key, e.clas, m2.time),
                      key, e.clas, 1),
              err |-> "none"]

\* one (class, feature, delta) entry with upd # 0 and feat_id # 0
update_entry(m, e) ==
    LET key == <<e.template_id, e.feat_id>>
        row == get_row(e.clas)
        m1 == IF key \in DOMAIN m.train_weights THEN m ELSE new_feat(m, key)
        a  == m1.train_weights[key].weights
        m2 == IF m1.mem[a][row] = NULL
              THEN [m1 EXCEPT !.mem[a][row] = ZeroLine,
                              !.train_weights[key].meta[row] = ZeroMeta]
              ELSE m1
    IN  IF m2.train_weights[key].meta[row] = NULL
        THEN [m |-> m2, err |-> "segfault"]
        ELSE [m |-> update_weight(
                      update_count(
                        update_accumulator(m2, key, e.clas, m2.time),
                        key, e.clas, 1),
                      key, e.clas, e.upd),
              err |-> "none"]

\* a zero delta treated like any other
RECURSIVE update_from_zero_applied(_, _, _)
update_from_zero_applied(m, entries, i) ==
    IF i > Len(entries) THEN [m |-> m, err |-> "none"]
    ELSE LET e == entries[i]
         IN  IF e.feat_id = 0 THEN [m |-> m, err |-> "AssertionError"]
             ELSE LET r == update_entry(m, e)
                  IN  IF r.err # "none" THEN r
                      ELSE update_from_zero_applied(r.m, entries, i + 1)

\* a nonzero delta for feature id 0 passed over in silence
RECURSIVE update_from_skips_zero_id(_, _, _)
update_from_skips_zero_id(m, entries, i) ==
    IF i > Len(entries) THEN [m |-> m, err |-> "none"]
    ELSE LET e == entries[i]
         IN  IF e.upd = 0 \/ e.feat_id = 0
             THEN update_from_skips_zero_id(m, entries, i + 1)
             ELSE LET r == update_entry(m, e)
                  IN  IF r.err # "none" THEN r
                      ELSE update_from_skips_zero_id(r.m, entries, i + 1)

\* a zero delta that still creates the feature and the row it addresses
RECURSIVE update_from_zero_allocates(_, _, _)
update_from_zero_allocates(m, entries, i) ==
    IF i > Len(entries) THEN [m |-> m, err |-> "none"]
    ELSE LET e == entries[i]
             key == <<e.template_id, e.feat_id>>
             row == get_row(e.clas)
             m1 == IF key \in DOMAIN m.train_weights THEN m ELSE new_feat(m, key)
             a  == m1.train_weights[key].weights
             m2 == IF m1.mem[a][row] = NULL
                   THEN [m1 EXCEPT !.mem[a][row] = ZeroLine,
                                   !.train_weights[key].meta[row] = ZeroMeta]
                   ELSE m1
         IN  IF e.upd = 0 THEN update_from_zero_allocates(m2, entries, i + 1)
             ELSE IF e.feat_id = 0 THEN [m |-> m, err |-> "AssertionError"]
             ELSE LET r == update_entry(m, e)
                  IN  IF r.err # "none" THEN r
                      ELSE update_from_zero_allocates(r.m, entries, i + 1)

RECURSIVE update_from(_, _, _)
update_from(m, entries, i) ==
    IF i > Len(entries) THEN [m |-> m, err |-> "none"]
    ELSE LET e == entries[i]
         IN  IF e.upd = 0 THEN update_from(m, entries, i + 1)
             ELSE IF e.feat_id = 0 THEN [m |-> m, err |-> "AssertionError"]
             ELSE LET r == update_entry(m, e)
                  IN  IF r.err # "none" THEN r
                      ELSE update_from(r.m, entries, i + 1)

\* time advanced once per entry instead of once per call
update_time_per_entry(m, entries) ==
    update_from([m EXCEPT !.time = @ + Len(entries)], entries, 1)

\* LinearModel.update: entries are the items of the updates dict, in the
\* order the two loops visit them
update(m, entries) == update_from([m EXCEPT !.time = @ + 1], entries, 1)

\* average_weight: a row whose weights are allocated and whose metadata is
\* not makes it read through a NULL pointer
average_weight_faults(m, key) ==
    LET feat == m.train_weights[key]
    IN  \E row \in Rows(m.nr_class) :
           m.mem[feat.weights][row] # NULL /\ feat.meta[row] = NULL

\* the cell stamped with the time the interval ends at
average_cell_stamps_time(w, md, time) ==
    LET unchanged == (time + 1) - md.time
        total == md.total + unchanged * w
    IN  [w |-> total, md |-> [md EXCEPT !.total = total, !.time = time + 1]]

\* the final interval counted without the last timestep
average_cell_short(w, md, time) ==
    LET unchanged == time - md.time
        total == md.total + unchanged * w
    IN  [w |-> total, md |-> [md EXCEPT !.total = total]]

average_cell(w, md, time) ==
    LET unchanged == (time + 1) - md.time
        total == md.total + unchanged * w
    IN  [w |-> total, md |-> [md EXCEPT !.total = total]]

average_weight(m, key, time) ==
    LET feat == m.train_weights[key]
        a == feat.weights
        done(row, col) == average_cell(m.mem[a][row][col], feat.meta[row][col], time)
    IN  [m EXCEPT
           !.mem[a] = [row \in Rows(m.nr_class) |->
                         IF m.mem[a][row] = NULL THEN NULL
                         ELSE [col \in Cols |-> done(row, col).w]],
           !.train_weights[key].meta =
                      [row \in Rows(m.nr_class) |->
                         IF m.mem[a][row] = NULL THEN feat.meta[row]
                         ELSE [col \in Cols |-> done(row, col).md]]]

RECURSIVE end_training_from(_, _, _)
end_training_from(m, cells, i) ==
    IF i > Len(cells) THEN [m |-> m, err |-> "none"]
    ELSE LET key == <<cells[i].template_id, cells[i].key>>
         IN  IF average_weight_faults(m, key) THEN [m |-> m, err |-> "segfault"]
             ELSE end_training_from(average_weight(m, key, m.time), cells, i + 1)

\* LinearModel.end_training
end_training(m) ==
    end_training_from(m, OccupiedCells(m.t_maps, m.nr_templates), 1)

\* LinearModel.end_train_iter: the message, and the two counters reset
end_train_iter(m, c) ==
    [m   |-> [m EXCEPT !.n_corr = 0, !.total = 0],
     msg |-> [n_corr |-> m.n_corr, total |-> m.total,
              cache_hit |-> IF c.n_total = 0 THEN 0 ELSE (c.n_hit * 100) \div c.n_total]]

\* the texts of a model file: the decimal text of an integer, or a text
\* that does not start with a number
str(n) == [digits |-> TRUE, val |-> n]

Junk == [digits |-> FALSE, val |-> 0]

\* strtoul(token, NULL, 10) and atoi(token): the number the text starts
\* with, 0 when it starts with none (no field of a modelled file spells a
\* negative number where strtoul reads it)
strtoul(token) == IF token.digits THEN token.val ELSE 0

\* the weights read as unsigned numbers
atoi_unsigned(token) == IF token.digits /\ token.val >= 0 THEN token.val ELSE 0

atoi(token) == IF token.digits THEN token.val ELSE 0

\* the lines dump writes for one feature; feat_id is the label read for it
RECURSIVE dump_rows(_, _, _, _, _)
dump_rows(m, key, feat_id, total_freq, row) ==
    IF row >= get_nr_rows(m.nr_class) THEN <<>>
    ELSE LET weights == m.mem[m.train_weights[key].weights][row]
             line == <<str(total_freq), str(key[1]), str(feat_id), str(row),
                       str(row * LINE_SIZE)>>
                     \o [i \in 1 .. LINE_SIZE |-> str(weights[i - 1])]
         IN  (IF weights = NULL THEN <<>>
              ELSE IF \A i \in 6 .. (5 + LINE_SIZE) : line[i] = str(0) THEN <<>>
              ELSE <<line>>)
             \o dump_rows(m, key, feat_id, total_freq, row + 1)

\* the label is the key in the cell of the inference map that has the index
\* of the training map's cell
RECURSIVE dump_from(_, _, _, _)
dump_from(m, cells, k, freq_thresh) ==
    IF k > Len(cells) THEN <<>>
    ELSE LET template_id == cells[k].template_id
             feat_id == m.w_maps[template_id].cells[cells[k].i]
             key == <<template_id, cells[k].key>>
             total_freq == get_total_count(m.train_weights[key], m.nr_class)
         IN  (IF freq_thresh >= 1 /\ total_freq < freq_thresh THEN <<>>
              ELSE dump_rows(m, key, feat_id, total_freq, 0))
             \o dump_from(m, cells, k + 1, freq_thresh)

\* LinearModel.dump: the lines written to file_
dump(m, freq_thresh) ==
    dump_from(m, OccupiedCells(m.t_maps, m.nr_templates), 1, freq_thresh)

\* one line of a loaded file, a sequence of tab-separated texts; strtok
\* returns NULL once the texts are used up, and reading through it ends the
\* process
load_line(m, line, freq_thresh) ==
    IF Len(line) < 5 THEN [m |-> m, err |-> "segfault"]
    ELSE LET freq == strtoul(line[1])
             key == <<strtoul(line[2]), strtoul(line[3])>>
             row == strtoul(line[4])
             m1 == IF key \in DOMAIN m.weights THEN m
                   ELSE LET a == NewAddr(m.mem)
                        IN  [m EXCEPT !.mem = (a :> NullRows(m.nr_class)) @@ m.mem,
                                      !.weights = (key :> a) @@ m.weights,
                                      !.w_maps[key[1]] = map_set(@, key[2])]
         IN  IF freq_thresh >= 1 /\ freq < freq_thresh THEN [m |-> m, err |-> "none"]
             ELSE IF Len(line) < 5 + LINE_SIZE THEN [m |-> m1, err |-> "segfault"]
             ELSE [m |-> [m1 EXCEPT !.mem[m1.weights[key]][row] =
                                       [col \in Cols |-> atoi(line[6 + col])]],
                   err |-> "none"]

RECURSIVE load_from(_, _, _, _)
load_from(m, lines, i, freq_thresh) ==
    IF i > Len(lines) THEN [m |-> m, err |-> "none"]
    ELSE LET r == load_line(m, lines[i], freq_thresh)
         IN  IF r.err # "none" THEN r
             ELSE load_from(r.m, lines, i + 1, freq_thresh)

\* LinearModel.load
load(m, lines, freq_thresh) == load_from(m, lines, 1, freq_thresh)

(***************************************************************************)
(* ScoresCache                                                             *)
(***************************************************************************)
\* buffers are named by their addresses: _arrays[k] is k + 1, the overflow
\* buffer _scores_if_full is max_size + 1, and 0 is the NULL pointer
NullBuf == 0

\* ScoresCache.__init__
NewCache(scores_size, max_size) ==
    [_cache          |-> <<>>,
     _arrays         |-> [k \in 0 .. (max_size - 1) |-> k + 1],
     _scores_if_full |-> max_size + 1,
     i               |-> 0,
     max_size        |-> max_size,
     scores_size     |-> scores_size,
     n_hit           |-> 0,
     n_total         |-> 0]

\* hash64 of the first size bytes of kernel (seed 0): a mixing of the bytes
\* and of their number that tells apart the keys within the bounds (its
\* values stay far below 2^64, so no reduction is written)
RECURSIVE hash_from(_, _, _)
hash_from(kernel, size, i) ==
    IF i > size THEN size
    ELSE hash_from(kernel, size, i + 1) * 31 + kernel[i] + 1

hash64(kernel, size) == hash_from(kernel, size, 1)

\* PreshMap.get
cache_get(c, hashed) == IF hashed \in DOMAIN c._cache THEN c._cache[hashed] ELSE NullBuf

\* a miss always given the slot at i, the last slot once the cache is full
lookup_reuses_last_slot(c, size, kernel, flag) ==
    LET hashed == hash64(kernel, size)
        scores == cache_get(c, hashed)
        c1 == [c EXCEPT !.n_total = @ + 1]
        k == IF c.i = c.max_size THEN c.max_size - 1 ELSE c.i
    IN  IF scores # NullBuf
        THEN [c |-> [c1 EXCEPT !.n_hit = @ + 1], is_hit |-> TRUE, scores |-> scores]
        ELSE [c |-> [c1 EXCEPT !.i = k + 1,
                               !._cache = (hashed :> c._arrays[k]) @@
                                          [h \in { x \in DOMAIN c._cache :
                                                      c._cache[x] # c._arrays[k] }
                                             |-> c._cache[h]]],
              is_hit |-> FALSE, scores |-> c._arrays[k]]

\* a miss on a full cache registered under the overflow buffer
lookup_registers_overflow(c, size, kernel, flag) ==
    LET hashed == hash64(kernel, size)
        scores == cache_get(c, hashed)
        c1 == [c EXCEPT !.n_total = @ + 1]
    IN  IF scores # NullBuf
        THEN [c |-> [c1 EXCEPT !.n_hit = @ + 1], is_hit |-> TRUE, scores |-> scores]
        ELSE IF c.i = c.max_size
        THEN [c |-> [c1 EXCEPT !._cache = (hashed :> c._scores_if_full) @@ c._cache],
              is_hit |-> flag, scores |-> c._scores_if_full]
        ELSE [c |-> [c1 EXCEPT !.i = @ + 1,
                               !._cache = (hashed :> c._arrays[c.i]) @@ c._cache],
              is_hit |-> FALSE, scores |-> c._arrays[c.i]]

\* the lookups counted only when they miss
lookup_counts_misses(c, size, kernel, flag) ==
    LET hashed == hash64(kernel, size)
        scores == cache_get(c, hashed)
        c1 == [c EXCEPT !.n_total = @ + 1]
    IN  IF scores # NullBuf
        THEN [c |-> [c EXCEPT !.n_hit = @ + 1], is_hit |-> TRUE, scores |-> scores]
        ELSE IF c.i = c.max_size
        THEN [c |-> c1, is_hit |-> flag, scores |-> c._scores_if_full]
        ELSE [c |-> [c1 EXCEPT !.i = @ + 1,
                               !._cache = (hashed :> c._arrays[c.i]) @@ c._cache],
              is_hit |-> FALSE, scores |-> c._arrays[c.i]]

\* ScoresCache.lookup: the cache afterwards, the flag afterwards, the buffer
lookup(c, size, kernel, flag) ==
    LET hashed == hash64(kernel, size)
        scores == cache_get(c, hashed)
        c1 == [c EXCEPT !.n_total = @ + 1]
    IN  IF scores # NullBuf
        THEN [c |-> [c1 EXCEPT !.n_hit = @ + 1], is_hit |-> TRUE, scores |-> scores]
        ELSE IF c.i = c.max_size
        THEN [c |-> c1, is_hit |-> flag, scores |-> c._scores_if_full]
        ELSE [c |-> [c1 EXCEPT !.i = @ + 1,
                               !._cache = (hashed :> c._arrays[c.i]) @@ c._cache],
              is_hit |-> FALSE, scores |-> c._arrays[c.i]]

\* ScoresCache.utilization: the text '0', or the hits in hundredths of a
\* percent of the lookups, rounded as '%.2f' rounds
utilization(c) ==
    IF c.n_total = 0 THEN [text |-> "0", hundredths |-> 0]
    ELSE [text |-> "%.2f",
          hundredths |-> (2 * 10000 * c.n_hit + c.n_total) \div (2 * c.n_total)]

\* the keys dropped, the free-slot pointer left where it was
flush_keeps_pointer(c) == [c EXCEPT !.n_hit = 0, !.n_total = 0, !._cache = <<>>]

\* the counters reset, the registered keys kept
flush_keeps_keys(c) == [c EXCEPT !.i = 0, !.n_hit = 0, !.n_total = 0]

\* ScoresCache.flush
flush(c) == [c EXCEPT !.i = 0, !.n_hit = 0, !.n_total = 0, !._cache = <<>>]

(***************************************************************************)
(* Inputs                                                                  *)
(***************************************************************************)
Templates(m) == 0 .. (m.nr_templates - 1)

FeatIds == 0 .. MaxFeatId

Deltas == 0 .. MaxDelta

Entries(m, e) == [clas : e.classes, template_id : Templates(m),
                  feat_id : e.feat_ids, upd : e.deltas]

EntryKey(e) == <<e.clas, e.template_id, e.feat_id>>

\* the items of a dict of dicts: no (class, feature) twice, and the
\* entries of one class next to each other
IsDictOrder(es) ==
    /\ \A i, j \in 1 .. Len(es) : i # j => EntryKey(es[i]) # EntryKey(es[j])
    /\ \A i, j, k \in 1 .. Len(es) :
          (i < j /\ j < k /\ es[i].clas = es[k].clas) => es[j].clas = es[i].clas

SeqsUpTo(S, n) == UNION { [1 .. k -> S] : k \in 0 .. n }

DictItems(S, n) == { es \in SeqsUpTo(S, n) : IsDictOrder(es) }

UpdateInputs(m, e) == DictItems(Entries(m, e), e.max_entries)

\* the entries of a call that stand before its first nonzero delta for
\* feature id 0
IsSentinel(e) == e.upd # 0 /\ e.feat_id = 0

BeforeSentinel(es) ==
    { i \in 1 .. Len(es) : \A j \in 1 .. i : ~IsSentinel(es[j]) }

\* the keys a call was given a nonzero delta for, before any such entry
NonzeroKeys(es) ==
    { <<es[i].template_id, es[i].feat_id>> :
        i \in { j \in BeforeSentinel(es) : es[j].upd # 0 } }

ScoreInputs(m) == SeqsUpTo(FeatIds, m.nr_templates)

\* what an output buffer may hold before a call: zeros (fresh from the
\* arena) or an earlier result
ScoreBuffers(m) == { [c \in 0 .. (m.nr_class - 1) |-> v] : v \in {0, MaxDelta} }

\* a well-formed line with one nonzero weight, at the column of class c
OneHotLine(template_id, feat_id, c, w) ==
    <<str(1), str(template_id), str(feat_id), str(get_row(c)),
      str(get_row(c) * LINE_SIZE)>>
    \o [i \in 1 .. LINE_SIZE |-> IF i - 1 = get_col(c) THEN str(w) ELSE str(0)]

\* the ways a line is malformed: texts missing from the header or from
\* the weights, a text that is no number for the feature id or for a weight
Malformed(line, c) ==
    { SubSeq(line, 1, 4), SubSeq(line, 1, 4 + LINE_SIZE),
      [line EXCEPT ![3] = Junk], [line EXCEPT ![6 + get_col(c)] = Junk] }

LoadLines(m, e) ==
    UNION { IF e.malformed
            THEN {OneHotLine(t, f, c, 1)} \cup Malformed(OneHotLine(t, f, c, 1), c)
            ELSE {OneHotLine(t, f, c, 1)} :
            t \in Templates(m), f \in e.load_ids, c \in e.classes }

LoadInputs(m, e) == SeqsUpTo(LoadLines(m, e), MaxLines)

Threshs == 0 .. MaxThresh

Bytes == 0 .. MaxByte

Kernels == UNION { [1 .. n -> Bytes] : n \in 1 .. MaxKeyLen }

\* the callers the model is run with
EndClasses(n) == { c \in 0 .. (n - 1) : c = 0 \/ c = n - 1 }

PlainEnv == [feat_ids |-> FeatIds, deltas |-> Deltas,
             load_ids |-> 1 .. MaxFeatId, malformed |-> FALSE]

WideEnv(n) == [classes |-> EndClasses(n), max_time |-> MaxTime,
               max_entries |-> MaxEntries, max_end |-> 1, max_load |-> 0]
              @@ PlainEnv

DeepEnv == [classes |-> {0}, max_time |-> MaxTimeDeep,
            max_entries |-> 1, max_end |-> MaxEndDeep, max_load |-> 0]
           @@ PlainEnv

RowsEnv(n) == [classes |-> 0 .. (n - 1), max_time |-> 1,
               max_entries |-> 1, max_end |-> 1, max_load |-> MaxLoads]
              @@ PlainEnv

\* the callers that write and read model files, on a model of two rows
\* with two feature ids that start at the same cell of a map: one that
\* trains with signed deltas and dumps, one that loads files with feature
\* id 0 and with malformed lines, one that loads and then trains
FileNrClass == LINE_SIZE + 1

TwinFeatId == 1 + INITIAL_SIZE

SignedEnv == [classes |-> EndClasses(FileNrClass), max_time |-> MaxTimeFile,
              max_entries |-> 1, max_end |-> 1, max_load |-> 0,
              feat_ids |-> {1, TwinFeatId}, deltas |-> {-1, 1},
              load_ids |-> {}, malformed |-> FALSE]

FileEnv == [classes |-> EndClasses(FileNrClass), max_time |-> 1,
            max_entries |-> 1, max_end |-> 1, max_load |-> MaxLoads,
            feat_ids |-> {1, TwinFeatId}, deltas |-> {1},
            load_ids |-> {0, 1, TwinFeatId}, malformed |-> TRUE]

SlotsEnv == [classes |-> {0}, max_time |-> MaxTimeFile,
             max_entries |-> 1, max_end |-> 0, max_load |-> MaxLoads,
             feat_ids |-> {1, TwinFeatId}, deltas |-> {1},
             load_ids |-> {1, TwinFeatId}, malformed |-> FALSE]

\* a caller whose update calls hold up to two entries, with and without a
\* delta, on a model of two rows
MixedEnv == [classes |-> EndClasses(FileNrClass), max_time |-> MaxTime,
             max_entries |-> MaxEntries, max_end |-> 1, max_load |-> MaxLoads,
             feat_ids |-> FeatIds, deltas |-> {0, 1},
             load_ids |-> 1 .. MaxFeatId, malformed |-> FALSE]

(***************************************************************************)
(* Specification of the LinearModel                                        *)
(***************************************************************************)
InitOf(nr_class, nr_templates, e) ==
    /\ lm = NewModel(nr_class, nr_templates)
    /\ cache = NewCache(nr_class, MaxCacheSize)
    /\ env = e
    /\ is_hit = FALSE
    /\ ret = [op |-> "init", err |-> "none"]
    /\ calls = [update |-> 0, end_training |-> 0, load |-> 0]
    /\ touched = {}
    /\ naive = <<>>
    /\ prev_buf = <<>>

Init ==
    \/ \E n \in {0, MaxNrClass} : InitOf(n, 2, WideEnv(n))
    \/ InitOf(1, 1, DeepEnv)
    \/ \E n \in 1 .. MaxNrClass : InitOf(n, 1, RowsEnv(n))

Alive == ret.err # "segfault"

\* the cells of the training map, and the live weight of one
AllocatedCells(m) ==
    { x \in (DOMAIN m.train_weights) \X (0 .. (m.nr_class - 1)) :
        m.mem[m.train_weights[x[1]].weights][get_row(x[2])] # NULL }

TrainWeight(m, x) == m.mem[m.train_weights[x[1]].weights][get_row(x[2])][get_col(x[2])]

\* the reference of the averaged perceptron: at every timestep, the end of
\* an update call, the live weight of every cell is added to its sum
NaiveStep(nv, m) ==
    [x \in AllocatedCells(m) |->
        (IF x \in DOMAIN nv THEN nv[x] ELSE 0) + TrainWeight(m, x)]

Update ==
    /\ Alive
    /\ calls.update < env.max_time
    /\ \E entries \in UpdateInputs(lm, env) :
          LET r == update(lm, entries)
          IN  /\ lm' = r.m
              /\ ret' = [op |-> "update", err |-> r.err]
              /\ touched' = touched \cup NonzeroKeys(entries)
              /\ naive' = NaiveStep(naive, r.m)
    /\ calls' = [calls EXCEPT !.update = @ + 1]
    /\ UNCHANGED <<cache, is_hit, env, prev_buf>>

Score ==
    /\ Alive
    /\ \E feat_ids \in ScoreInputs(lm), scores \in ScoreBuffers(lm) :
          ret' = [op |-> "score", err |-> "none",
                  nonzero |-> \E c \in 0 .. (lm.nr_class - 1) :
                                 score(lm, scores, feat_ids)[c] # 0]
    /\ UNCHANGED <<lm, cache, is_hit, env, calls, touched, naive, prev_buf>>

EndTraining ==
    /\ Alive
    /\ calls.end_training < env.max_end
    /\ LET r == end_training(lm)
       IN  /\ lm' = r.m
           /\ ret' = [op |-> "end_training", err |-> r.err]
    /\ calls' = [calls EXCEPT !.end_training = @ + 1]
    /\ UNCHANGED <<cache, is_hit, env, touched, naive, prev_buf>>

EndTrainIter ==
    /\ Alive
    /\ LET r == end_train_iter(lm, cache)
       IN  /\ lm' = r.m
           /\ ret' = [op |-> "end_train_iter", err |-> "none"]
    /\ UNCHANGED <<cache, is_hit, env, calls, touched, naive, prev_buf>>

\* the features below the threshold taken out of the two maps
DumpPrunes ==
    /\ Alive
    /\ \E freq_thresh \in Threshs :
          LET kept == { key \in DOMAIN lm.train_weights :
                          freq_thresh < 1
                          \/ get_total_count(lm.train_weights[key], lm.nr_class)
                                >= freq_thresh }
          IN  /\ ret' = [op |-> "dump", err |-> "none",
                         wrote |-> dump(lm, freq_thresh) # <<>>]
              /\ lm' = [lm EXCEPT
                          !.train_weights = [key \in kept |-> lm.train_weights[key]],
                          !.weights = [key \in (DOMAIN lm.weights)
                                                \ ((DOMAIN lm.train_weights) \ kept)
                                         |-> lm.weights[key]]]
    /\ UNCHANGED <<cache, is_hit, env, calls, touched, naive, prev_buf>>

Dump ==
    /\ Alive
    /\ \E freq_thresh \in Threshs :
          ret' = [op |-> "dump", err |-> "none", wrote |-> dump(lm, freq_thresh) # <<>>]
    /\ UNCHANGED <<lm, cache, is_hit, env, calls, touched, naive, prev_buf>>

Load ==
    /\ Alive
    /\ calls.load < env.max_load
    /\ \E lines \in LoadInputs(lm, env), freq_thresh \in Threshs :
          LET r == load(lm, lines, freq_thresh)
          IN  /\ lm' = r.m
              /\ ret' = [op |-> "load", err |-> r.err]
    /\ calls' = [calls EXCEPT !.load = @ + 1]
    /\ UNCHANGED <<cache, is_hit, env, touched, naive, prev_buf>>

Next == Update \/ Score \/ EndTraining \/ EndTrainIter \/ Dump \/ Load

Spec == Init /\ [][Next]_vars

(***************************************************************************)
(* Specification of the ScoresCache                                        *)
(***************************************************************************)
InitCache == InitOf(1, 1, DeepEnv)

Lookup ==
    /\ cache.n_total < MaxLookups
    /\ \E kernel \in Kernels, flag \in BOOLEAN :
          LET r == lookup(cache, Len(kernel), kernel, flag)
              hashed == hash64(kernel, Len(kernel))
          IN  /\ cache' = r.c
              /\ is_hit' = r.is_hit
              /\ ret' = [op |-> "lookup", err |-> "none", scores |-> r.scores,
                         prior |-> IF hashed \in DOMAIN prev_buf
                                   THEN prev_buf[hashed] ELSE NullBuf]
              /\ prev_buf' = (hashed :> r.scores) @@ prev_buf
    /\ UNCHANGED <<lm, env, calls, touched, naive>>

Flush ==
    /\ cache' = flush(cache)
    /\ ret' = [op |-> "flush", err |-> "none"]
    /\ prev_buf' = <<>>
    /\ UNCHANGED <<lm, is_hit, env, calls, touched, naive>>

NextCache == Lookup \/ Flush

SpecCache == InitCache /\ [][NextCache]_vars

(***************************************************************************)
(* Specification of the model files                                        *)
(***************************************************************************)
InitFile == \E e \in {SignedEnv, FileEnv, SlotsEnv} : InitOf(FileNrClass, 1, e)

SpecFile == InitFile /\ [][Next]_vars

(***************************************************************************)
(* Specification of the update calls of several entries                    *)
(***************************************************************************)
InitMixed == InitOf(FileNrClass, 1, MixedEnv)

SpecMixed == InitMixed /\ [][Next]_vars

(***************************************************************************)
(* Properties                                                              *)
(***************************************************************************)
RealKeys(m) == { <<t, f>> : t \in Templates(m), f \in 1 .. MaxFeatId }

Entry(c, key, upd) ==
    [clas |-> c, template_id |-> key[1], feat_id |-> key[2], upd |-> upd]

\* the weight the inference map holds for (key, class c), 0 when it holds none
Weight(m, key, c) ==
    IF key \notin DOMAIN m.weights THEN 0
    ELSE IF m.mem[m.weights[key]][get_row(c)] = NULL THEN 0
    ELSE m.mem[m.weights[key]][get_row(c)][get_col(c)]

\* an EndTraining step that returned
EndTrainingStep ==
    /\ calls'.end_training = calls.end_training + 1
    /\ ret'.err = "none"

\* the update inputs that leave the cell (key, class c) alone and raise nothing
Untouching(m, e, key, c) ==
    DictItems({ x \in Entries(m, e) :
                  \/ x.upd = 0
                  \/ (x.feat_id # 0 /\ EntryKey(x) # <<c, key[1], key[2]>>) },
              e.max_entries)

\* the cell (key, c) after: delta 1 at time 1, an update that leaves it
\* alone at time 2, delta 2 at time 3, end_training
PinnedRun(m, e, key, c, es) ==
    LET r1 == update(m, <<Entry(c, key, 1)>>)
        r2 == update(r1.m, es)
        r3 == update(r2.m, <<Entry(c, key, 2)>>)
        r4 == end_training(r3.m)
    IN  [err |-> {r1.err, r2.err, r3.err, r4.err}, w |-> Weight(r4.m, key, c)]

\* C1: end_training replaces the weight of every allocated cell by
\* total + ((time + 1) - last_time) * w, undivided; and a fresh cell given
\* delta 1 at time 1, nothing at time 2 and delta 2 at time 3 holds exactly 5
\* after end_training at time 3.
C1_PinnedAverage ==
    /\ [](\A key \in RealKeys(lm), c \in env.classes :
            (lm.time = 0 /\ key \notin DOMAIN lm.weights /\ Alive) =>
               \A es \in Untouching(lm, env, key, c) :
                  LET run == PinnedRun(lm, env, key, c, es)
                  IN  run.err = {"none"} => run.w = 5)
    /\ [][EndTrainingStep =>
            \A key \in DOMAIN lm.train_weights :
               \A row \in Rows(lm.nr_class), col \in Cols :
                  LET a == lm.train_weights[key].weights
                      md == lm.train_weights[key].meta[row][col]
                  IN  lm.mem[a][row] # NULL =>
                         lm'.mem[a][row][col] =
                            md.total + ((lm.time + 1) - md.time) * lm.mem[a][row][col]]_vars

\* the pinned run has happened: a cell touched twice, last at time 3, whose
\* weight end_training made 5
C1_Witness ==
    /\ ret.op = "end_training" /\ ret.err = "none"
    /\ lm.time = 3
    /\ \E key \in DOMAIN lm.train_weights :
          LET feat == lm.train_weights[key]
          IN  /\ lm.mem[feat.weights][0] # NULL
              /\ feat.meta[0][0] = [count |-> 2, time |-> 3, total |-> 5]
              /\ lm.mem[feat.weights][0][0] = 5

\* C2: time is the number of update calls made so far: every update call
\* adds one, whatever it touches, and no other operation changes it.
C2_TimeCountsUpdates == lm.time = calls.update

\* two update calls that touched nothing, and other calls made as well
C2_Witness ==
    /\ lm.time = 2
    /\ lm.train_weights = <<>>
    /\ ret.op # "update"

\* the update inputs whose every delta is zero
ZeroInputs(m, e) ==
    DictItems({ x \in Entries(m, e) : x.upd = 0 }, e.max_entries)

\* C3 as stated: an update call whose deltas are all zero leaves the whole
\* model, the time counter included, as it was.
C3_ZeroUpdateChangesNothing ==
    Alive => \A es \in ZeroInputs(lm, env) : update(lm, es).m = lm

\* C3 amended: an update call whose deltas are all zero leaves the weights,
\* the metadata cells and the stored keys and rows as they were; only the
\* time counter changes, and it advances by one.
C3_ZeroUpdateOnlyAdvancesTime ==
    Alive => \A es \in ZeroInputs(lm, env) :
                update(lm, es) = [m |-> [lm EXCEPT !.time = @ + 1], err |-> "none"]

\* a trained model whose last update call touched no cell
C3_Witness ==
    /\ ret.op = "update" /\ ret.err = "none"
    /\ lm.time = 2
    /\ lm.train_weights # <<>>
    /\ \A key \in DOMAIN lm.train_weights :
          \A row \in Rows(lm.nr_class), col \in Cols :
             lm.train_weights[key].meta[row] # NULL =>
                lm.train_weights[key].meta[row][col].time < 2

RECURSIVE SumOver(_, _, _)
SumOver(f(_), i, n) == IF i > n THEN 0 ELSE f(i) + SumOver(f, i + 1, n)

\* what position i of an active feature list adds to class c
Contribution(m, feat_ids, i, c) ==
    IF feat_ids[i] = 0 THEN 0 ELSE Weight(m, <<i - 1, feat_ids[i]>>, c)

ExpectedScore(m, feat_ids, c) ==
    LET at(i) == Contribution(m, feat_ids, i, c)
    IN  SumOver(at, 1, Len(feat_ids))

\* C4: whatever the output buffer held, score leaves in output[c] the sum
\* over the positions i of the active feature list whose feature id is
\* nonzero and stored in the inference map with the row of c allocated, of
\* that feature's weight for class c.
C4_ScoreIsSumOfStoredWeights ==
    Alive =>
       \A feat_ids \in ScoreInputs(lm), scores \in ScoreBuffers(lm) :
          \A c \in 0 .. (lm.nr_class - 1) :
             score(lm, scores, feat_ids)[c] = ExpectedScore(lm, feat_ids, c)

\* score has run on a model in which two features of one list score for
\* the same class
C4_Witness ==
    /\ ret.op = "score" /\ ret.nonzero
    /\ lm.nr_templates = 2
    /\ \E c \in 0 .. (lm.nr_class - 1) :
          /\ Weight(lm, <<0, 1>>, c) # 0
          /\ Weight(lm, <<1, 1>>, c) # 0

Zeroed(feat_ids, i) == [feat_ids EXCEPT ![i] = 0]

\* C5: while only updates have stored weights, a list position that holds
\* feature id 0, or a feature no update was given a nonzero delta for, adds
\* 0 to every class; a list of zeros scores the all-zero vector of length
\* nr_class.
C5_Sparsity ==
    (Alive /\ calls.load = 0) =>
       \A feat_ids \in ScoreInputs(lm), scores \in ScoreBuffers(lm) :
          /\ \A i \in 1 .. Len(feat_ids) :
                (feat_ids[i] = 0 \/ <<i - 1, feat_ids[i]>> \notin touched) =>
                   score(lm, scores, feat_ids) = score(lm, scores, Zeroed(feat_ids, i))
          /\ (\A i \in 1 .. Len(feat_ids) : feat_ids[i] = 0) =>
                score(lm, scores, feat_ids) = [c \in 0 .. (lm.nr_class - 1) |-> 0]

\* score has run on a model where one feature was updated and the feature
\* of the other template never was
C5_Witness ==
    /\ ret.op = "score"
    /\ calls.load = 0
    /\ lm.nr_templates = 2
    /\ touched = {<<0, 1>>}
    /\ \E c \in 0 .. (lm.nr_class - 1) : Weight(lm, <<0, 1>>, c) # 0

\* C6: set_scores writes only output indices below nr_class: of a row it
\* adds exactly the columns of the classes that exist; and with
\* nr_class = 10 an update of class 9 allocates and changes row 1 only, at
\* column 2, leaving row 0 of a new feature unallocated.
C6_RowBoundary ==
    (Alive /\ lm.nr_class >= 1) =>
       /\ \A feat_ids \in ScoreInputs(lm) :
             set_scores_written(gather_weights(lm, feat_ids), lm.nr_class)
                \subseteq 0 .. (lm.nr_class - 1)
       /\ \A row \in Rows(lm.nr_class) :
             { row * LINE_SIZE + col : col \in line_cols(row * LINE_SIZE, lm.nr_class) }
                = { c \in 0 .. (lm.nr_class - 1) : get_row(c) = row }
       /\ lm.nr_class = 10 =>
             \A key \in RealKeys(lm), upd \in 1 .. MaxDelta :
                LET r == update(lm, <<Entry(9, key, upd)>>)
                    old == IF key \in DOMAIN lm.train_weights
                           THEN lm.mem[lm.train_weights[key].weights]
                           ELSE NullRows(lm.nr_class)
                    new == r.m.mem[r.m.train_weights[key].weights]
                IN  r.err = "none" =>
                       /\ new[0] = old[0]
                       /\ new[1] = [col \in Cols |->
                                     (IF old[1] = NULL THEN 0 ELSE old[1][col])
                                     + (IF col = 2 THEN upd ELSE 0)]

\* with nr_class = 10, class 9 of a feature was updated, its row 0 is
\* unallocated, and score has run
C6_Witness ==
    /\ ret.op = "score" /\ ret.nonzero
    /\ lm.nr_class = 10
    /\ \E key \in DOMAIN lm.train_weights :
          LET rows == lm.mem[lm.train_weights[key].weights]
          IN  /\ rows[0] = NULL
              /\ rows[1] # NULL
              /\ rows[1][2] # 0

\* the update inputs with a nonzero delta for feature id 0
SentinelInputs(m, e) ==
    { es \in UpdateInputs(m, e) : \E i \in 1 .. Len(es) : IsSentinel(es[i]) }

\* the entries of a call without its nonzero deltas for feature id 0
RECURSIVE WithoutSentinels(_)
WithoutSentinels(es) ==
    IF es = <<>> THEN <<>>
    ELSE (IF IsSentinel(Head(es)) THEN <<>> ELSE <<Head(es)>>)
         \o WithoutSentinels(Tail(es))

\* the entries of a call before its first nonzero delta for feature id 0
Prefix(es) == SubSeq(es, 1, Cardinality(BeforeSentinel(es)))

NoZeroIdStored(m) ==
    \A key \in DOMAIN m.weights \cup DOMAIN m.train_weights : key[2] # 0

C8_ZeroClassesRejected == lm.nr_class # 0

\* C9: a row the inference map holds for a key stays allocated under that
\* key through every later call.
C9_RowsStayAllocated ==
    [][\A key \in DOMAIN lm.weights :
          \A row \in Rows(lm.nr_class) :
             lm.mem[lm.weights[key]][row] # NULL =>
                /\ key \in DOMAIN lm'.weights
                /\ lm'.mem[lm'.weights[key]][row] # NULL]_vars

\* C10 as stated: a lookup of a key looked up before, with no flush in
\* between, reports a hit and returns the buffer the earlier lookup
\* returned.
C10_RepeatIsHit ==
    (ret.op = "lookup" /\ ret.prior # NullBuf) =>
       (is_hit /\ ret.scores = ret.prior)

\* C10 amended: a lookup of a key looked up before, with no flush in
\* between, reports a hit and returns the buffer the earlier lookup
\* returned, provided the earlier lookup did not return the overflow buffer
\* (the key was registered, or a slot was free); a key first looked up
\* while the cache was full gets the overflow buffer again and is not
\* registered.
C10_RepeatIsHitUnlessOverflow ==
    (ret.op = "lookup" /\ ret.prior # NullBuf) =>
       IF ret.prior # cache._scores_if_full
       THEN is_hit /\ ret.scores = ret.prior
       ELSE /\ ret.scores = cache._scores_if_full
            /\ \A h \in DOMAIN cache._cache : cache._cache[h] # ret.scores

\* both cases have happened: a repeat that hit after the cache filled up
C10_Witness ==
    /\ ret.op = "lookup"
    /\ ret.prior # NullBuf /\ ret.prior # cache._scores_if_full
    /\ is_hit
    /\ cache.i = cache.max_size
    /\ cache.n_total >= 4

\* the slots handed out so far, and the keys that are not registered
Registered(c) == { c._cache[h] : h \in DOMAIN c._cache }

Unregistered(c) == { k \in Kernels : hash64(k, Len(k)) \notin DOMAIN c._cache }

\* C11: on a cache that holds max_size registered keys, a lookup of an
\* unregistered key returns the overflow buffer, which is no registered
\* slot and is registered under no key; the associations and the free-slot
\* pointer stay as they were, every registered key still gets its own
\* buffer, and a repeat of the overflow key is a miss again (no hit is
\* counted, nothing is registered, the overflow buffer is returned).
C11_OverflowIsolation ==
    (cache.i = cache.max_size /\ Cardinality(DOMAIN cache._cache) = cache.max_size) =>
       \A k \in Unregistered(cache), flag \in BOOLEAN :
          LET r == lookup(cache, Len(k), k, flag)
              again == lookup(r.c, Len(k), k, r.is_hit)
          IN  /\ r.scores = cache._scores_if_full
              /\ r.scores \notin Registered(cache)
              /\ \A j \in DOMAIN cache._arrays : cache._arrays[j] # r.scores
              /\ r.c._cache = cache._cache
              /\ r.c.i = cache.i
              /\ r.c.n_hit = cache.n_hit
              /\ \A k2 \in Kernels \ Unregistered(cache) :
                    lookup(r.c, Len(k2), k2, flag).scores
                       = cache._cache[hash64(k2, Len(k2))]
              /\ again.scores = cache._scores_if_full
              /\ again.c._cache = cache._cache
              /\ again.c.n_hit = cache.n_hit

\* an overflow key has been looked up twice on a full cache
C11_Witness ==
    /\ ret.op = "lookup"
    /\ cache.i = cache.max_size
    /\ Cardinality(DOMAIN cache._cache) = cache.max_size
    /\ ret.scores = cache._scores_if_full
    /\ ret.prior = cache._scores_if_full
    /\ cache.n_hit = 0

\* the first n of the keys, looked up one after the other
RECURSIVE lookup_all(_, _, _)
lookup_all(c, ks, n) ==
    IF n = 0 THEN c ELSE lookup(lookup_all(c, ks, n - 1), Len(ks[n]), ks[n], FALSE).c

DistinctKeys(n) ==
    { ks \in [1 .. n -> Kernels] : \A a, b \in 1 .. n : a # b => ks[a] # ks[b] }

\* C12: flush leaves the cache as it was constructed: n_hit = 0,
\* n_total = 0, i = 0, no key registered; right after it a lookup of any
\* key is a miss registered in slot 0, and max_size distinct keys are
\* registered again, in the slots 0 .. max_size - 1.
C12_FlushResets ==
    LET f == flush(cache)
    IN  /\ f = NewCache(cache.scores_size, cache.max_size)
        /\ f.n_hit = 0 /\ f.n_total = 0 /\ f.i = 0 /\ DOMAIN f._cache = {}
        /\ \A k \in Kernels, flag \in BOOLEAN :
              LET r == lookup(f, Len(k), k, flag)
              IN  /\ ~r.is_hit
                  /\ r.scores = f._arrays[0]
                  /\ r.c._cache = (hash64(k, Len(k)) :> f._arrays[0])
                  /\ r.c.i = 1 /\ r.c.n_hit = 0
        /\ \A ks \in DistinctKeys(cache.max_size) :
              LET c == lookup_all(f, ks, cache.max_size)
              IN  /\ c.i = cache.max_size
                  /\ \A j \in 1 .. cache.max_size :
                        c._cache[hash64(ks[j], Len(ks[j]))] = f._arrays[j - 1]

\* a flush of a cache that had keys registered (a hit was reported) has
\* emptied it
C12_Witness ==
    /\ ret.op = "flush"
    /\ is_hit
    /\ cache = NewCache(cache.scores_size, cache.max_size)

\* the feature lists a caller of the file model scores
FileScoreInputs(m, e) == SeqsUpTo(e.feat_ids \cup e.load_ids, m.nr_templates)

\* a row that holds no nonzero weight: absent, or allocated with zeros only
ZeroRow(m, a, row) == m.mem[a][row] = NULL \/ \A col \in Cols : m.mem[a][row][col] = 0

\* the model a dump of m gives when it is loaded into a fresh model
Reloaded(m, freq_thresh) ==
    load(NewModel(m.nr_class, m.nr_templates), dump(m, freq_thresh), 0)

\* C13: a model built by update calls, dumped with freq_thresh = 0 and
\* loaded into a fresh model of the same nr_class and nr_templates, scores
\* every feature list as before; rows whose weights are all zero, and
\* features that have only such rows, are absent from the loaded model.
C13_RoundTrip ==
    (Alive /\ calls.load = 0) =>
       LET r == Reloaded(lm, 0)
       IN  /\ r.err = "none"
           /\ \A feat_ids \in FileScoreInputs(lm, env), scores \in ScoreBuffers(lm) :
                 score(r.m, scores, feat_ids) = score(lm, scores, feat_ids)
           /\ \A key \in DOMAIN lm.train_weights :
                 LET a == lm.train_weights[key].weights
                 IN  /\ \A row \in Rows(lm.nr_class) :
                           ZeroRow(lm, a, row) =>
                              \/ key \notin DOMAIN r.m.weights
                              \/ r.m.mem[r.m.weights[key]][row] = NULL
                     /\ (\A row \in Rows(lm.nr_class) : ZeroRow(lm, a, row))
                           => key \notin DOMAIN r.m.weights

\* a model built by updates has been dumped: it holds a negative weight, a
\* row whose weights went back to zero, and a feature with no nonzero weight
C13_Witness ==
    /\ ret.op = "dump" /\ ret.wrote
    /\ calls.load = 0
    /\ \E key \in DOMAIN lm.train_weights, c \in env.classes : Weight(lm, key, c) < 0
    /\ \E key \in DOMAIN lm.train_weights :
          \A row \in Rows(lm.nr_class) : ZeroRow(lm, lm.train_weights[key].weights, row)

\* the rows of a feature with a nonzero weight
NonzeroRows(m, key) ==
    { row \in Rows(m.nr_class) : ~ZeroRow(m, m.train_weights[key].weights, row) }

\* C14: with freq_thresh >= 1, a feature of the training map whose total
\* update count is below freq_thresh is absent from the model loaded from
\* the dump, whatever its weights; a feature whose total count reaches
\* freq_thresh is not pruned: its rows with a nonzero weight are in the
\* loaded model, with their weights.
C14_FrequencyPruning ==
    Alive =>
       \A freq_thresh \in 1 .. MaxThresh :
          LET r == Reloaded(lm, freq_thresh)
          IN  \A key \in DOMAIN lm.train_weights :
                 IF get_total_count(lm.train_weights[key], lm.nr_class) < freq_thresh
                 THEN key \notin DOMAIN r.m.weights
                 ELSE \A row \in NonzeroRows(lm, key) :
                         /\ key \in DOMAIN r.m.weights
                         /\ r.m.mem[r.m.weights[key]][row]
                               = lm.mem[lm.train_weights[key].weights][row]

\* the line the claim describes for a row of a feature
LineOf(m, key, row) ==
    <<str(get_total_count(m.train_weights[key], m.nr_class)), str(key[1]), str(key[2]),
      str(row), str(row * LINE_SIZE)>>
    \o [i \in 1 .. LINE_SIZE |-> str(m.mem[m.train_weights[key].weights][row][i - 1])]

Survives(m, key, freq_thresh) ==
    freq_thresh < 1 \/ get_total_count(m.train_weights[key], m.nr_class) >= freq_thresh

\* C15: dump writes one line for each feature of the training map that
\* survives pruning and each of its rows with a nonzero weight, and no
\* other line; a line has 12 fields: the feature's total frequency, its
\* template id, its feature id, the row, the row times 7, the 7 weights.
C15_DumpShape ==
    Alive =>
       \A freq_thresh \in Threshs :
          LET lines == dump(lm, freq_thresh)
              written == { x \in (DOMAIN lm.train_weights) \X Rows(lm.nr_class) :
                             /\ Survives(lm, x[1], freq_thresh)
                             /\ x[2] \in NonzeroRows(lm, x[1]) }
          IN  /\ Len(lines) = Cardinality(written)
              /\ \A i \in 1 .. Len(lines) : Len(lines[i]) = 5 + LINE_SIZE
              /\ { lines[i] : i \in 1 .. Len(lines) }
                    = { LineOf(lm, x[1], x[2]) : x \in written }

\* a line with a missing field or a field that is no number
IsMalformed(line) ==
    Len(line) < 5 + LINE_SIZE \/ \E i \in 1 .. Len(line) : ~line[i].digits

\* C16: a load of a file with a malformed line ends in an error.
C16_MalformedLineFails ==
    Alive =>
       \A lines \in LoadInputs(lm, env), freq_thresh \in Threshs :
          (\E i \in 1 .. Len(lines) : IsMalformed(lines[i]))
             => load(lm, lines, freq_thresh).err # "none"

\* C17: in no state that update, end_training, dump and load calls lead
\* to does a map hold a key whose feature id is 0.
C17_ZeroIdNeverStored == Alive => NoZeroIdStored(lm)

\* C18: after update calls followed by one end_training, the weight of
\* every allocated cell is the sum, over the update calls, of the live
\* weight the cell had at the end of the call (0 before it was allocated).
C18_LazyEqualsNaive ==
    (ret.op = "end_training" /\ ret.err = "none"
        /\ calls.end_training = 1 /\ calls.load = 0) =>
       \A x \in AllocatedCells(lm) : TrainWeight(lm, x) = naive[x]

\* an averaged model whose cells were touched at different times, one of
\* them more than once and not in the last call
C18_Witness ==
    /\ ret.op = "end_training" /\ ret.err = "none"
    /\ calls.end_training = 1 /\ calls.load = 0 /\ calls.update = 3
    /\ \E x, y \in AllocatedCells(lm) :
          LET mx == lm.train_weights[x[1]].meta[get_row(x[2])][get_col(x[2])]
              my == lm.train_weights[y[1]].meta[get_row(y[2])][get_col(y[2])]
          IN  /\ mx.count = 2 /\ mx.time = 2
              /\ my.count = 1 /\ my.time = 3
              /\ TrainWeight(lm, x) # 0

\* the training cell an entry addresses: its weight and its metadata, all
\* zero while the feature or the row is not allocated
TrainCell(m, e) ==
    LET key == <<e.template_id, e.feat_id>>
        row == get_row(e.clas)
        col == get_col(e.clas)
    IN  IF key \in DOMAIN m.train_weights
           /\ m.mem[m.train_weights[key].weights][row] # NULL
           /\ m.train_weights[key].meta[row] # NULL
        THEN [w     |-> m.mem[m.train_weights[key].weights][row][col],
              count |-> m.train_weights[key].meta[row][col].count,
              time  |-> m.train_weights[key].meta[row][col].time,
              total |-> m.train_weights[key].meta[row][col].total]
        ELSE [w |-> 0, count |-> 0, time |-> 0, total |-> 0]

\* C19: an update call at time T that completes leaves, for each of its
\* entries with a nonzero delta, the addressed training cell with
\* total' = total + (T - last_time) * w, last_time' = T,
\* count' = count + 1 and w' = w + delta, w being the weight before the
\* delta.
C19_PerTouchStep ==
    Alive =>
       \A entries \in UpdateInputs(lm, env) :
          LET r == update(lm, entries)
              T == lm.time + 1
          IN  r.err = "none" =>
                 \A i \in 1 .. Len(entries) :
                    entries[i].upd # 0 =>
                       LET old == TrainCell(lm, entries[i])
                           new == TrainCell(r.m, entries[i])
                       IN  /\ new.total = old.total + (T - old.time) * old.w
                           /\ new.time = T
                           /\ new.count = old.count + 1
                           /\ new.w = old.w + entries[i].upd

\* a cell touched a second time, two timesteps after the first, while it
\* held a nonzero weight
C19_Witness ==
    /\ ret.op = "update" /\ ret.err = "none" /\ lm.time = 3
    /\ \E x \in AllocatedCells(lm) :
          LET mx == lm.train_weights[x[1]].meta[get_row(x[2])][get_col(x[2])]
          IN  mx.count = 2 /\ mx.time = 3 /\ mx.total # 0

\* the entries of a call that carry a delta
WithoutZeros(entries) == SelectSeq(entries, LAMBDA e : e.upd # 0)

KeyStored(m, key) == key \in DOMAIN m.weights \/ key \in DOMAIN m.train_weights

RowAllocated(m, key, row) ==
    /\ key \in DOMAIN m.train_weights
    /\ m.mem[m.train_weights[key].weights][row] # NULL

\* entry e has a delta and addresses the feature of entry z, and its row
SameFeat(e, z) ==
    e.upd # 0 /\ e.template_id = z.template_id /\ e.feat_id = z.feat_id

SameRow(e, z) == SameFeat(e, z) /\ get_row(e.clas) = get_row(z.clas)

\* C20: an entry with a zero delta, in whatever update call it stands,
\* has no effect: the call ends as it does without the entry, the cell
\* the entry addresses keeps its weight, count, last_time and total, and
\* a feature key or a row that did not exist and that no entry with a
\* delta addresses does not exist afterwards.
C20_ZeroDeltaIsNoOp ==
    Alive =>
       \A entries \in UpdateInputs(lm, env) :
          \A r \in {update(lm, entries)} :
             /\ r = update(lm, WithoutZeros(entries))
             /\ \A i \in 1 .. Len(entries) :
                   LET z == entries[i]
                       key == <<z.template_id, z.feat_id>>
                       row == get_row(z.clas)
                       others == { entries[j] : j \in 1 .. Len(entries) }
                   IN  z.upd = 0 =>
                          /\ TrainCell(r.m, z) = TrainCell(lm, z)
                          /\ (~KeyStored(lm, key)
                                 /\ \A e \in others : ~SameFeat(e, z))
                                => ~KeyStored(r.m, key)
                          /\ (~RowAllocated(lm, key, row)
                                 /\ \A e \in others : ~SameRow(e, z))
                                => ~RowAllocated(r.m, key, row)

\* a model with a trained cell, and a call that holds a zero delta for
\* that cell, a zero delta for a feature that is not stored, and a call
\* that holds a zero delta for a row of a feature next to a delta for
\* another row of it
C20_Witness ==
    /\ Alive /\ lm.time = 1
    /\ \E entries \in UpdateInputs(lm, env) :
          /\ Len(entries) = 2
          /\ entries[1].upd = 0 /\ entries[2].upd = 0
          /\ TrainCell(lm, entries[1]).w # 0
          /\ ~KeyStored(lm, <<entries[2].template_id, entries[2].feat_id>>)
    /\ \E entries \in UpdateInputs(lm, env) :
          /\ Len(entries) = 2
          /\ entries[1].upd = 0 /\ entries[2].upd # 0
          /\ entries[2].feat_id # 0
          /\ SameFeat(entries[2], entries[1])
          /\ ~SameRow(entries[2], entries[1])
          /\ ~RowAllocated(lm, <<entries[1].template_id, entries[1].feat_id>>,
                           get_row(entries[1].clas))

\* the rows of a feature of the training map: its weights and its metadata
WeightRow(m, key, row) ==
    IF key \in DOMAIN m.train_weights
    THEN m.mem[m.train_weights[key].weights][row] ELSE NULL

MetaRow(m, key, row) ==
    IF key \in DOMAIN m.train_weights
    THEN m.train_weights[key].meta[row] ELSE NULL

\* a delta of the call addresses the row, or the cell, of the feature
Addressed(entries, key, row) ==
    \E i \in 1 .. Len(entries) :
       /\ entries[i].upd # 0
       /\ key = <<entries[i].template_id, entries[i].feat_id>>
       /\ row = get_row(entries[i].clas)

AddressedCell(entries, key, row, col) ==
    \E i \in 1 .. Len(entries) :
       /\ entries[i].upd # 0
       /\ key = <<entries[i].template_id, entries[i].feat_id>>
       /\ row = get_row(entries[i].clas) /\ col = get_col(entries[i].clas)

\* every row of every feature of the training map has its weights and its
\* metadata allocated together
RowsAllocatedTogether(m) ==
    \A key \in DOMAIN m.train_weights, row \in Rows(m.nr_class) :
       (WeightRow(m, key, row) # NULL) <=> (MetaRow(m, key, row) # NULL)

\* an update call that completes allocates the rows its deltas address,
\* zeroed but for the cells they address, and no other row
UpdateAllocatesLazily(m, entries) ==
    \A r \in {update(m, entries)} :
       r.err = "none" =>
          \A key \in DOMAIN r.m.train_weights, row \in Rows(m.nr_class) :
             /\ (WeightRow(r.m, key, row) # NULL) <=>
                   (WeightRow(m, key, row) # NULL \/ Addressed(entries, key, row))
             /\ (MetaRow(r.m, key, row) # NULL) <=>
                   (MetaRow(m, key, row) # NULL \/ Addressed(entries, key, row))
             /\ (WeightRow(m, key, row) = NULL /\ Addressed(entries, key, row)) =>
                   \A col \in Cols :
                      ~AddressedCell(entries, key, row, col) =>
                         /\ WeightRow(r.m, key, row)[col] = 0
                         /\ MetaRow(r.m, key, row)[col] = ZeroMeta[col]

\* C21: a feature is created with all its rows absent, an update with a
\* delta for class c allocates the row c div 7, weights and metadata
\* together and zeroed, and no other row; so in every state every row of
\* every feature of the training map has its weights allocated if and only
\* if it has its metadata allocated.
C21_LazyRowAllocation ==
    Alive =>
       /\ RowsAllocatedTogether(lm)
       /\ \A entries \in UpdateInputs(lm, env) : UpdateAllocatesLazily(lm, entries)

\* what holds of it: the step of update in every state, and the rows of a
\* model that no load call has written to
C21_UpdateStep ==
    Alive => \A entries \in UpdateInputs(lm, env) : UpdateAllocatesLazily(lm, entries)

C21_TogetherNoLoad == (Alive /\ calls.load = 0) => RowsAllocatedTogether(lm)

\* the weight a feature of the training map holds for a class
LiveWeight(m, key, c) ==
    IF WeightRow(m, key, get_row(c)) = NULL THEN 0
    ELSE WeightRow(m, key, get_row(c))[get_col(c)]

\* C22: in every state that update and end_training calls lead to from a
\* new model, the two maps hold the same keys, in the same cells, and a
\* key's entry of the inference map is the pointer array of its entry of
\* the training map; so the score of a feature is the weight the training
\* map holds for it.
C22_SharedStorage ==
    (Alive /\ calls.load = 0) =>
       /\ DOMAIN lm.weights = DOMAIN lm.train_weights
       /\ lm.w_maps = lm.t_maps
       /\ \A key \in DOMAIN lm.train_weights :
             /\ lm.weights[key] = lm.train_weights[key].weights
             /\ lm.nr_templates = 1 =>
                   \A scores \in ScoreBuffers(lm), c \in 0 .. (lm.nr_class - 1) :
                      score(lm, scores, <<key[2]>>)[c] = LiveWeight(lm, key, c)

\* a model of two features right after an update, and right after
\* end_training
C22_Witness ==
    /\ calls.load = 0 /\ ret.err = "none"
    /\ ret.op \in {"update", "end_training"}
    /\ Cardinality(DOMAIN lm.train_weights) = 2
    /\ \E key \in DOMAIN lm.train_weights, c \in 0 .. (lm.nr_class - 1) :
          LiveWeight(lm, key, c) # 0
    /\ calls.end_training = 1

\* C23: a lookup of a registered key adds one to n_hit and one to n_total;
\* a lookup of any other key, registered by the call or given the overflow
\* buffer, adds one to n_total only; so n_hit <= n_total in every state,
\* and utilization is '0' while n_total is 0.
C23_CacheCounters ==
    /\ 0 <= cache.n_hit /\ cache.n_hit <= cache.n_total
    /\ cache.n_total = 0 => utilization(cache).text = "0"
    /\ \A k \in Kernels, flag \in BOOLEAN :
          \A r \in {lookup(cache, Len(k), k, flag)} :
             /\ r.c.n_total = cache.n_total + 1
             /\ r.c.n_hit = IF k \in Unregistered(cache)
                            THEN cache.n_hit ELSE cache.n_hit + 1

\* lookups of the three kinds have been counted: a hit on a full cache
\* after a miss that got the overflow buffer
C23_Witness ==
    /\ ret.op = "lookup" /\ is_hit
    /\ cache.i = cache.max_size
    /\ cache._scores_if_full \in { prev_buf[h] : h \in DOMAIN prev_buf }
    /\ cache.n_hit = 1
    /\ cache.n_total = cache.max_size + 2

\* the features of the training map a dump with the threshold leaves out
Pruned(m, freq_thresh) ==
    { key \in DOMAIN m.train_weights : ~Survives(m, key, freq_thresh) }

\* C24: a dump call, with any frequency threshold, leaves the model as it
\* was: the weights, the metadata, the two maps and the time counter; a
\* feature the threshold prunes from the file is still stored and scores
\* as before.
C24_DumpReadOnly ==
    [][Dump =>
          /\ lm' = lm
          /\ \A freq_thresh \in Threshs :
                \A key \in Pruned(lm, freq_thresh) :
                   /\ key \in DOMAIN lm'.train_weights
                   /\ key \in DOMAIN lm'.weights
                   /\ \A scores \in ScoreBuffers(lm) :
                         score(lm', scores, <<key[2]>>) = score(lm, scores, <<key[2]>>)]_vars

\* a dump has left out every feature of a model that holds a nonzero
\* weight, and the model still scores it
C24_Witness ==
    /\ ret.op = "dump" /\ ~ret.wrote
    /\ \E key \in DOMAIN lm.train_weights :
          /\ Pruned(lm, MaxThresh) = DOMAIN lm.train_weights
          /\ \E c \in 0 .. (lm.nr_class - 1) :
                score(lm, [x \in 0 .. (lm.nr_class - 1) |-> 0], <<key[2]>>)[c] # 0

\* the weights a line of a file holds
LineWeights(line) == [col \in Cols |-> atoi(line[6 + col])]

\* two lines for one row of one feature
DuplicateLines(m, e) ==
    UNION { { <<OneHotLine(t, f, c1, 1), OneHotLine(t, f, c2, MaxDelta)>> :
                t \in Templates(m), f \in e.load_ids,
                c2 \in { c \in 0 .. (m.nr_class - 1) : get_row(c) = get_row(c1) } } :
            c1 \in 0 .. (m.nr_class - 1) }

\* what the training map holds is what it held: its keys and cells, the
\* TrainFeat of each key, and the weights the TrainFeat gives for each row
TrainingMapUnchanged(m, n) ==
    /\ n.train_weights = m.train_weights
    /\ n.t_maps = m.t_maps
    /\ \A key \in DOMAIN m.train_weights, row \in Rows(m.nr_class) :
          WeightRow(n, key, row) = WeightRow(m, key, row)

\* C25: a load call that completes adds or overwrites rows of the
\* inference map only: the training map, the metadata and the time counter
\* are as before; of two lines for the same row of a feature the later one
\* gives the row its weights.
C25_LoadOnlyInference ==
    Alive =>
       /\ \A lines \in LoadInputs(lm, env), freq_thresh \in Threshs :
             \A r \in {load(lm, lines, freq_thresh)} :
                r.err = "none" =>
                   /\ TrainingMapUnchanged(lm, r.m)
                   /\ r.m.time = lm.time
       /\ \A lines \in DuplicateLines(lm, env) :
             \A r \in {load(lm, lines, 0)} :
                /\ r.err = "none"
                /\ r.m.time = lm.time
                /\ r.m.mem[r.m.weights[<<strtoul(lines[2][2]), strtoul(lines[2][3])>>]]
                          [strtoul(lines[2][4])] = LineWeights(lines[2])

\* what holds of it: the keys, the cells, the metadata and the time
\* counter, and the later of two lines
C25_MetadataAndTimeKept ==
    Alive =>
       /\ \A lines \in LoadInputs(lm, env), freq_thresh \in Threshs :
             \A r \in {load(lm, lines, freq_thresh)} :
                r.err = "none" =>
                   /\ r.m.train_weights = lm.train_weights
                   /\ r.m.t_maps = lm.t_maps
                   /\ r.m.time = lm.time
       /\ \A lines \in DuplicateLines(lm, env) :
             \A r \in {load(lm, lines, 0)} :
                /\ r.err = "none"
                /\ r.m.time = lm.time
                /\ r.m.mem[r.m.weights[<<strtoul(lines[2][2]), strtoul(lines[2][3])>>]]
                          [strtoul(lines[2][4])] = LineWeights(lines[2])

\* C26: in every state, load followed by update included, each occupied
\* cell of a template's training map has the same key as the cell of the
\* same index of the template's inference map, which is the cell dump
\* reads the feature id of the line from.
C26_DumpLabelsRight ==
    Alive =>
       \A t \in Templates(lm) :
          \A i \in DOMAIN lm.t_maps[t].cells :
             lm.t_maps[t].cells[i] # 0 =>
                /\ i \in DOMAIN lm.w_maps[t].cells
                /\ lm.w_maps[t].cells[i] = lm.t_maps[t].cells[i]

\* what holds of it: the cells agree while no load call has been made
C26_RightWithoutLoad ==
    (Alive /\ calls.load = 0) =>
       \A t \in Templates(lm) :
          \A i \in DOMAIN lm.t_maps[t].cells :
             lm.t_maps[t].cells[i] # 0 =>
                lm.w_maps[t].cells[i] = lm.t_maps[t].cells[i]

\* the keys that came from load: in the inference map, not in the training
\* map
LoadedOnly(m) == (DOMAIN m.weights) \ (DOMAIN m.train_weights)

\* the delta a call holds for a class of a feature, 0 if it holds none
DeltaFor(entries, key, c) ==
    IF \E i \in 1 .. Len(entries) :
          key = <<entries[i].template_id, entries[i].feat_id>> /\ entries[i].clas = c
    THEN (CHOOSE e \in { entries[i] : i \in 1 .. Len(entries) } :
             key = <<e.template_id, e.feat_id>> /\ e.clas = c).upd
    ELSE 0

\* the pointer arrays no map refers to any more
Orphans(m) ==
    { a \in DOMAIN m.mem :
        /\ \A key \in DOMAIN m.weights : m.weights[key] # a
        /\ \A key \in DOMAIN m.train_weights : m.train_weights[key].weights # a }

\* C27: an update call with a delta for a key that the inference map holds
\* and the training map does not gives the key a new feature, in both
\* maps; after the call the key scores the deltas of the call, for the
\* classes they address, and 0 for every other class: the loaded weights
\* of the key are gone.
C27_UpdateReplacesLoaded ==
    Alive =>
       \A entries \in UpdateInputs(lm, env) :
          \A r \in {update(lm, entries)} :
             r.err = "none" =>
                \A key \in LoadedOnly(lm) :
                   (\E row \in Rows(lm.nr_class) : Addressed(entries, key, row)) =>
                      /\ key \in DOMAIN r.m.train_weights
                      /\ r.m.weights[key] = r.m.train_weights[key].weights
                      /\ r.m.weights[key] \notin DOMAIN lm.mem
                      /\ lm.weights[key] \in Orphans(r.m)
                      /\ \A c \in 0 .. (lm.nr_class - 1) :
                            /\ LiveWeight(r.m, key, c) = DeltaFor(entries, key, c)
                            /\ lm.nr_templates = 1 =>
                                  \A scores \in ScoreBuffers(lm) :
                                     score(r.m, scores, <<key[2]>>)[c]
                                        = DeltaFor(entries, key, c)

\* an update has replaced a key whose loaded row held a weight for a class
\* the call did not address
C27_Witness ==
    /\ ret.op = "update" /\ ret.err = "none" /\ calls.load = 1
    /\ \E a \in Orphans(lm), key \in DOMAIN lm.train_weights :
          \E c \in 0 .. (lm.nr_class - 1) :
             /\ lm.mem[a][get_row(c)] # NULL
             /\ lm.mem[a][get_row(c)][get_col(c)] # 0
             /\ LiveWeight(lm, key, c) = 0

\* the metadata cell of a cell of the training map
MetaCell(m, x) == m.train_weights[x[1]].meta[get_row(x[2])][get_col(x[2])]

\* n is m but for the weights and the totals of the allocated cells
OnlyWeightsAndTotals(m, n) ==
    /\ [n EXCEPT !.mem = m.mem, !.train_weights = m.train_weights] = m
    /\ DOMAIN n.mem = DOMAIN m.mem
    /\ DOMAIN n.train_weights = DOMAIN m.train_weights
    /\ \A key \in DOMAIN m.train_weights :
          /\ n.train_weights[key].weights = m.train_weights[key].weights
          /\ \A row \in Rows(m.nr_class) :
                /\ (WeightRow(n, key, row) = NULL) <=> (WeightRow(m, key, row) = NULL)
                /\ (MetaRow(n, key, row) = NULL) <=> (MetaRow(m, key, row) = NULL)
    /\ \A x \in AllocatedCells(m) :
          /\ MetaCell(n, x).count = MetaCell(m, x).count
          /\ MetaCell(n, x).time = MetaCell(m, x).time

\* C28: an end_training call that completes changes the weights and the
\* totals only: the count and last_time of every cell, the time counter,
\* the keys and the allocated rows are as before. A second call right
\* after it adds ((time + 1) - last_time) * w to the total of each cell
\* once more, w being the total the first call left, so it changes every
\* cell whose weight is not 0.
C28_EndTrainingFrame ==
    Alive =>
       \A r1 \in {end_training(lm)} :
          r1.err = "none" =>
             /\ OnlyWeightsAndTotals(lm, r1.m)
             /\ \A r2 \in {end_training(r1.m)} :
                   /\ r2.err = "none"
                   /\ OnlyWeightsAndTotals(r1.m, r2.m)
                   /\ \A x \in AllocatedCells(lm) :
                         /\ TrainWeight(r1.m, x) = MetaCell(r1.m, x).total
                         /\ MetaCell(r2.m, x).total =
                               MetaCell(r1.m, x).total
                               + ((lm.time + 1) - MetaCell(lm, x).time)
                                    * TrainWeight(r1.m, x)
                         /\ TrainWeight(r2.m, x) = MetaCell(r2.m, x).total
                         /\ TrainWeight(r1.m, x) # 0 =>
                               TrainWeight(r2.m, x) # TrainWeight(r1.m, x)

\* two end_training calls after the one update call, which gave a cell
\* the delta 2: the first call left 2, the second 4
C28_Witness ==
    /\ ret.op = "end_training" /\ ret.err = "none"
    /\ calls.end_training = 2 /\ calls.update = 1 /\ lm.time = 1
    /\ \E x \in AllocatedCells(lm) :
          /\ MetaCell(lm, x) = [count |-> 1, time |-> 1, total |-> 4]
          /\ TrainWeight(lm, x) = 4

\* C29: after a lookup call the caller's flag is true if and only if the
\* key was registered before the call, whatever the flag held before; a
\* miss on a full cache reports false.
C29_HitFlagMeaningful ==
    \A k \in Kernels, flag \in BOOLEAN :
       lookup(cache, Len(k), k, flag).is_hit <=> k \notin Unregistered(cache)

\* what holds of it: the flag is set by a hit and by a miss that registers
\* the key, and is left as it was by a miss on a full cache
C29_FlagUnlessOverflow ==
    \A k \in Kernels, flag \in BOOLEAN :
       lookup(cache, Len(k), k, flag).is_hit =
          IF k \notin Unregistered(cache) THEN TRUE
          ELSE IF cache.i < cache.max_size THEN FALSE
          ELSE flag

\* the k-th slot is given to the k-th key registered: a lookup step leaves
\* the registered keys with their slots and gives a new key the slot at i
RegistersInOrder ==
    /\ \A h \in DOMAIN cache._cache :
          h \in DOMAIN cache'._cache /\ cache'._cache[h] = cache._cache[h]
    /\ \A h \in (DOMAIN cache'._cache) \ (DOMAIN cache._cache) :
          /\ cache.i < cache.max_size
          /\ cache'._cache[h] = cache._arrays[cache.i]
          /\ cache'.i = cache.i + 1
    /\ Cardinality((DOMAIN cache'._cache) \ (DOMAIN cache._cache)) <= 1

\* C30: in every state that lookup and flush calls lead to,
\* 0 <= i <= max_size, i keys are registered, their buffers are the
\* distinct slots 0 .. i - 1, given out in the order of the first lookups,
\* and none is the overflow buffer; every step but a flush leaves each
\* registered key with its slot.
C30_CacheCapacity ==
    /\ [](/\ 0 <= cache.i /\ cache.i <= cache.max_size
          /\ Cardinality(DOMAIN cache._cache) = cache.i
          /\ Registered(cache) = { cache._arrays[j] : j \in 0 .. (cache.i - 1) }
          /\ Cardinality(Registered(cache)) = cache.i
          /\ cache._scores_if_full \notin Registered(cache))
    /\ [][ret'.op # "flush" => RegistersInOrder]_vars

\* a full cache, after a hit, has answered a lookup with the overflow
\* buffer
C30_Witness ==
    /\ ret.op = "lookup" /\ ret.scores = cache._scores_if_full
    /\ cache.i = cache.max_size
    /\ Cardinality(DOMAIN cache._cache) = cache.max_size
    /\ cache.n_hit >= 1

\* the number of WeightLine cells __init__ allocates for _weight_lines
WeightLinesSize(m) == m.nr_class * m.nr_templates

\* C31: for nr_class >= 1 and a feature list of at most nr_templates
\* ids, in every state, gather_weights writes at most
\* nr_class * nr_templates rows, the size of the buffer, and the start of
\* every row it writes is a multiple of 7 below nr_class.
C31_GatherBufferBound ==
    (Alive /\ lm.nr_class >= 1) =>
       \A feat_ids \in ScoreInputs(lm) :
          \A w_lines \in {gather_weights(lm, feat_ids)} :
             /\ Len(w_lines) <= WeightLinesSize(lm)
             /\ Len(w_lines) <= Len(feat_ids) * get_nr_rows(lm.nr_class)
             /\ \A i \in 1 .. Len(w_lines) :
                   /\ w_lines[i].start % LINE_SIZE = 0
                   /\ 0 <= w_lines[i].start
                   /\ w_lines[i].start < lm.nr_class

\* a score call on a model of two templates and two rows whose features
\* have every row allocated: a list gathers the most rows there can be
C31_Witness ==
    /\ ret.op = "score" /\ ret.nonzero
    /\ lm.nr_class = MaxNrClass /\ lm.nr_templates = 2
    /\ \E feat_ids \in ScoreInputs(lm) :
          Len(gather_weights(lm, feat_ids))
             = lm.nr_templates * get_nr_rows(lm.nr_class)

\* a model of one class and one template has filled its buffer of one row
C31_WitnessTight ==
    /\ ret.op = "score" /\ ret.nonzero
    /\ WeightLinesSize(lm) = 1
    /\ \E feat_ids \in ScoreInputs(lm) : Len(gather_weights(lm, feat_ids)) = 1

====
